---- MODULE Spec2Model ----
(***************************************************************************)
(* rapidsai/shared-actions: telemetry-impls/summarize/send_trace.py.       *)
(*                                                                         *)
(* main() loads all_jobs.json, opens the root span, hands every job to     *)
(* process_job_blob() and ends the root span.  process_job_blob() opens a  *)
(* job span, emits the "Start delay time" span, walks the steps and ends   *)
(* the job span.  A span reaches the exporter (sink) when it is ended.     *)
(*                                                                         *)
(* Representation.                                                         *)
(*  - A Python string is a sequence of one-character strings; the empty    *)
(*    string and None are both <<>> (both are falsy, and the code only     *)
(*    tests truthiness).                                                   *)
(*  - A timestamp string in the format "%Y-%m-%dT%H:%M:%SZ" is <<"ts", n>>,*)
(*    the text naming second n after the epoch; <<"junk">> is a non-empty  *)
(*    string that is not in that format.                                   *)
(*  - Epoch values are held in milliseconds, the code's nanoseconds        *)
(*    divided by 10^6, so that they stay inside TLC's 32-bit integers.     *)
(*  - hashlib.sha256 is an uninterpreted injective function: the digest of *)
(*    a byte string is <<"sha256">> followed by the byte string.           *)
(*  - A rate (a / b) is the pair <<a, b>>, and the rate 0 is <<0, 1>>; a    *)
(*    line of a stats file is what the two regular expressions capture.    *)
(***************************************************************************)
EXTENDS Integers, Sequences, FiniteSets, TLC

VARIABLES
    pc,                  \* position of the process: start, loop, steps, done, error
    jobs,                \* main: the list read from all_jobs.json
    env_vars,            \* main: telemetry-env-vars, a function on the keys present
    first_timestamp,     \* main
    last_timestamp,      \* main
    trace_id,            \* main
    root_span,           \* main: the root span, started and not yet ended
    idx,                 \* main: position of "for job in jobs" (1-based)
    job_span,            \* process_job_blob: the job span, started and not yet ended
    id_generator,        \* process_job_blob: job_provider.id_generator
    job_last_timestamp,  \* process_job_blob
    k,                   \* process_job_blob: position of "for step in job['steps']"
    step_start,          \* process_job_blob: of the step just walked
    step_end,            \* process_job_blob: of the step just walked
    sink,                \* the spans handed to the span processor, in the order ended
    stats_files,         \* the sccache-stats*.txt files of a job's artifact folder
    attributes,          \* process_job_blob: the resource attributes of the job's provider
    sccache_stats,       \* process_job_blob: what get_sccache_stats returned
    \* check-nightly-success/check.py
    nightly_pc,          \* position of the process: idle, main, page, attempt, got,
                         \* returned, exit, raised, unparsed
    server,              \* the pages the GitHub API holds for each of the two queries
    max_retries,         \* GitHubClient.max_retries (main's num_attempts)
    call,                \* main: which get_all_runs call is running, "success" or "all"
    queries,             \* the params of the get_all_runs calls main has made, in order
    url,                 \* get_all_runs
    params,              \* get_all_runs
    data,                \* get_all_runs
    page_num,            \* get_all_runs
    page,                \* get_all_runs: what __get_next_page returned last
    fetched,             \* the requests of this get_all_runs call that succeeded, in order
    exceptions,          \* __get_next_page
    events,              \* the requests and sleeps of this __get_next_page call, in order
    successful_runs,     \* main
    all_runs,            \* main
    bound,               \* main: which of successful_runs and all_runs are assigned
    exit_code            \* what main returned: <<>> as long as it has not returned

send_trace_vars ==
    <<pc, jobs, env_vars, first_timestamp, last_timestamp, trace_id, root_span,
      idx, job_span, id_generator, job_last_timestamp, k, step_start, step_end, sink,
      stats_files, attributes, sccache_stats>>

nightly_vars ==
    <<nightly_pc, server, max_retries, call, queries, url, params, data, page_num, page,
      fetched, exceptions, events, successful_runs, all_runs, bound, exit_code>>

vars == <<send_trace_vars, nightly_vars>>

-----------------------------------------------------------------------------
(* Strings                                                                 *)

Max(a, b) == IF a >= b THEN a ELSE b

None == <<>>

DecDigits == <<"0", "1", "2", "3", "4", "5", "6", "7", "8", "9">>

HexDigits == <<"0", "1", "2", "3", "4", "5", "6", "7", "8", "9",
               "a", "b", "c", "d", "e", "f">>

\* str(n) for n >= 0
RECURSIVE Str(_)
Str(n) == IF n < 10 THEN <<DecDigits[n + 1]>>
          ELSE Str(n \div 10) \o <<DecDigits[(n % 10) + 1]>>

\* s.split(sep): the list of the fields between the separators
RECURSIVE Split(_, _)
Split(s, sep) ==
    IF \A i \in 1..Len(s) : s[i] # sep THEN <<s>>
    ELSE LET i == CHOOSE j \in 1..Len(s) :
                      s[j] = sep /\ \A h \in 1..(j - 1) : s[h] # sep
         IN  <<SubSeq(s, 1, i - 1)>> \o Split(SubSeq(s, i + 1, Len(s)), sep)

IsHex(s) == Len(s) > 0 /\ \A i \in 1..Len(s) : \E d \in 1..16 : HexDigits[d] = s[i]

HexDigitValue(c) == (CHOOSE d \in 1..16 : HexDigits[d] = c) - 1

\* int(s, 16) for a string of hex digits
RECURSIVE HexToInt(_)
HexToInt(s) == IF Len(s) = 0 THEN 0
               ELSE 16 * HexToInt(SubSeq(s, 1, Len(s) - 1)) + HexDigitValue(s[Len(s)])

-----------------------------------------------------------------------------
(* Timestamps                                                              *)

\* the code's 1e9 (nanoseconds per second), in the model's milliseconds
TicksPerSec == 1000

\* the step duration threshold of "(step_end - step_start) / 1e9 > 1", in seconds
MinStepSeconds == 1

IsTimestamp(date_str) == Len(date_str) = 2 /\ date_str[1] = "ts"

\* datetime.strptime raises ValueError
StrptimeRaises(date_str) == date_str # None /\ ~IsTimestamp(date_str)

\* datetime.strptime(...).replace(tzinfo=utc).timestamp(): seconds since the epoch
Strptime(date_str) == date_str[2]

date_str_to_epoch(date_str, value_if_not_set) ==
    IF date_str # None
    THEN Strptime(date_str) * TicksPerSec
    ELSE value_if_not_set

\* a bug: every conclusion but "success" is an error
MapNotSuccessToError(conclusion) == IF conclusion = "success" THEN "OK" ELSE "ERROR"

map_conclusion_to_status_code(conclusion) ==
    IF conclusion = "success" THEN "OK"
    ELSE IF conclusion = "failure" THEN "ERROR"
    ELSE "UNSET"

-----------------------------------------------------------------------------
(* RapidsSpanIdGenerator                                                   *)

Sha256(bytes) == <<"sha256">> \o bytes

RapidsSpanIdGenerator(tid, job_name) ==
    [trace_id |-> tid, job_name |-> job_name, step_name |-> None]

\* a bug: the step name never reaches the generator
UpdateStepNameLost(gen, step_name) == gen

update_step_name(gen, step_name) == [gen EXCEPT !.step_name = step_name]

generate_span_id(gen) ==
    Sha256(Str(gen.trace_id) \o gen.job_name
           \o (IF gen.step_name # None THEN gen.step_name ELSE <<>>))

generate_trace_id(gen) == gen.trace_id

-----------------------------------------------------------------------------
(* Spans (opentelemetry.sdk.trace)                                         *)

NoSpan == [kind |-> "none"]

NoParent == <<>>

\* tracer.start_span / start_as_current_span: the span id comes from the
\* provider's id generator, the trace id from the parent span if there is one
\* and from the id generator otherwise.  job and step say which record of the
\* input the span was made for (0: none).
StartSpan(kind, job, step, name, start_time, gen, parent) ==
    [kind |-> kind, job |-> job, step |-> step, name |-> name,
     start_time |-> start_time, end_time |-> 0, status |-> "UNSET",
     trace_id |-> IF parent = NoSpan THEN generate_trace_id(gen) ELSE parent.trace_id,
     span_id |-> generate_span_id(gen),
     parent |-> IF parent = NoSpan THEN NoParent ELSE parent.span_id]

set_status(span, status) == [span EXCEPT !.status = status]

\* span.end(end_time)
EndSpan(span, end_time) == [span EXCEPT !.end_time = end_time]

\* start_span(..., attributes=span_attributes)
WithAttributes(span, span_attributes) == ("attributes" :> span_attributes) @@ span

\* a bug: a span that ends is put before the spans that ended earlier
OnEndFirst(spans, span) == <<span>> \o spans

\* span.end() hands the span to the span processor, after those handed before
on_end(spans, span) == Append(spans, span)

-----------------------------------------------------------------------------
(* Compiler, SccacheStats, get_sccache_stats                               *)

\* a / b of Python, the quotient kept as numerator and denominator; a
\* denominator of 0 is the division that raises ZeroDivisionError
TrueDiv(a, b) == <<a, b>>

\* the number 0 as a rate
ZeroRate == <<0, 1>>

\* the keys of SccacheStats.compilers (line 211)
Langs == {"c", "cpp", "cuda"}

Compiler == [hits |-> 0, misses |-> 0, errors |-> 0]

Compiler_requests(c) == c.hits + c.misses + c.errors

Compiler_hit_rate(c) ==
    IF Compiler_requests(c) > 0 THEN TrueDiv(c.hits, Compiler_requests(c)) ELSE ZeroRate

Compiler_miss_rate(c) ==
    IF Compiler_requests(c) > 0 THEN TrueDiv(c.misses, Compiler_requests(c)) ELSE ZeroRate

Compiler_error_rate(c) ==
    IF Compiler_requests(c) > 0 THEN TrueDiv(c.errors, Compiler_requests(c)) ELSE ZeroRate

SccacheStats(requests, compilers) == [requests |-> requests, compilers |-> compilers]

SccacheStats_hits(stats) ==
    stats.compilers["c"].hits + stats.compilers["cpp"].hits + stats.compilers["cuda"].hits

SccacheStats_misses(stats) ==
    stats.compilers["c"].misses + stats.compilers["cpp"].misses
        + stats.compilers["cuda"].misses

SccacheStats_errors(stats) ==
    stats.compilers["c"].errors + stats.compilers["cpp"].errors
        + stats.compilers["cuda"].errors

\* a bug: the rate is computed whatever the number of requests
HitRateUnguarded(stats) == TrueDiv(SccacheStats_hits(stats), stats.requests)

SccacheStats_hit_rate(stats) ==
    IF stats.requests > 0 THEN TrueDiv(SccacheStats_hits(stats), stats.requests)
    ELSE ZeroRate

SccacheStats_miss_rate(stats) ==
    IF stats.requests > 0 THEN TrueDiv(SccacheStats_misses(stats), stats.requests)
    ELSE ZeroRate

SccacheStats_error_rate(stats) ==
    IF stats.requests > 0 THEN TrueDiv(SccacheStats_errors(stats), stats.requests)
    ELSE ZeroRate

\* A line of a stats file, as the two regular expressions of lines 208 and 213
\* see it: "Compile requests <count>", "Cache <result> (<lang>...) <count>",
\* or a line neither matches; result and lang are the groups of the second
\* expression and count the number either captured, "" and 0 when there is none.
RequestsLine(count) == [kind |-> "requests", result |-> "", lang |-> "", count |-> count]

CacheLine(result, lang, count) ==
    [kind |-> "cache", result |-> result, lang |-> lang, count |-> count]

OtherLine == [kind |-> "other", result |-> "", lang |-> "", count |-> 0]

\* lines 213-217: one line of the file
ReadStatsLine(stats, line) ==
    IF line.kind = "requests" THEN [stats EXCEPT !.requests = line.count]
    ELSE IF line.kind = "cache"
         THEN [stats EXCEPT !.compilers[line.lang][line.result] = line.count]
         ELSE stats

\* lines 211-217: the lines of one file, from the first to the last
RECURSIVE ReadStatsFile(_, _)
ReadStatsFile(stats, lines) ==
    IF lines = <<>> THEN stats
    ELSE ReadStatsFile(ReadStatsLine(stats, Head(lines)), Tail(lines))

\* a file found by the glob of line 205: the name lines 218-222 give it
\* ("main_process" for sccache-stats.txt), and its lines
StatsFile(name, lines) == [name |-> name, lines |-> lines]

\* parsed_stats: for each name, the statistics of the last file of that name
get_sccache_stats(files) ==
    [name \in {files[i].name : i \in 1..Len(files)} |->
        LET last == CHOOSE i \in 1..Len(files) :
                        /\ files[i].name = name
                        /\ \A j \in (i + 1)..Len(files) : files[j].name # name
        IN  ReadStatsFile(SccacheStats(0, [lang \in Langs |-> Compiler]),
                          files[last].lines)]

UpperCase == <<"A", "B", "C", "D", "E", "F", "G", "H", "I", "J", "K", "L", "M",
               "N", "O", "P", "Q", "R", "S", "T", "U", "V", "W", "X", "Y", "Z">>

LowerCase == <<"a", "b", "c", "d", "e", "f", "g", "h", "i", "j", "k", "l", "m",
               "n", "o", "p", "q", "r", "s", "t", "u", "v", "w", "x", "y", "z">>

\* re.IGNORECASE: a letter as its lower case
Lower(c) ==
    IF \E i \in 1..Len(UpperCase) : UpperCase[i] = c
    THEN LowerCase[CHOOSE i \in 1..Len(UpperCase) : UpperCase[i] = c]
    ELSE c

LowerAll(s) == [i \in 1..Len(s) |-> Lower(s[i])]

\* the class [\w+] : a letter, a digit, "_" or "+"
IsWordOrPlus(c) ==
    \/ \E i \in 1..Len(LowerCase) : LowerCase[i] = Lower(c)
    \/ \E i \in 1..Len(DecDigits) : DecDigits[i] = c
    \/ c = "_"
    \/ c = "+"

\* " build"
SpaceBuild == <<" ", "b", "u", "i", "l", "d">>

\* "build and repair"
BuildAndRepair == <<"b", "u", "i", "l", "d", " ", "a", "n", "d", " ",
                    "r", "e", "p", "a", "i", "r">>

\* line 306: re.match(r"(?:[\w+]+\sbuild$)|(?:Build\sand\srepair.*)", name, re.IGNORECASE)
IsBuildStep(name) ==
    \/ /\ Len(name) > Len(SpaceBuild)
       /\ SubSeq(LowerAll(name), Len(name) - Len(SpaceBuild) + 1, Len(name)) = SpaceBuild
       /\ \A i \in 1..(Len(name) - Len(SpaceBuild)) : IsWordOrPlus(name[i])
    \/ /\ Len(name) >= Len(BuildAndRepair)
       /\ SubSeq(LowerAll(name), 1, Len(BuildAndRepair)) = BuildAndRepair

RateNames == {"hit_rate", "miss_rate", "error_rate", "requests"}

\* lines 309-312: the attributes of a file
FileAttribute(stats, field) ==
    IF field = "hit_rate" THEN SccacheStats_hit_rate(stats)
    ELSE IF field = "miss_rate" THEN SccacheStats_miss_rate(stats)
    ELSE IF field = "error_rate" THEN SccacheStats_error_rate(stats)
    ELSE stats.requests

\* lines 314-317: the attributes of a language of a file
LangAttribute(c, field) ==
    IF field = "hit_rate" THEN Compiler_hit_rate(c)
    ELSE IF field = "miss_rate" THEN Compiler_miss_rate(c)
    ELSE IF field = "error_rate" THEN Compiler_error_rate(c)
    ELSE Compiler_requests(c)

\* lines 300-317: span_attributes; the key "sccache.<file>.<lang>.<field>" is
\* <<file, lang, field>>, and "sccache.<file>.<field>" is <<file, "", field>>
SpanAttributes(step_name, stats_of) ==
    IF IsBuildStep(step_name)
    THEN [key \in {<<name, lang, field>> :
                       name \in DOMAIN stats_of, lang \in Langs \cup {""},
                       field \in RateNames} |->
             IF key[2] = "" THEN FileAttribute(stats_of[key[1]], key[3])
             ELSE LangAttribute(stats_of[key[1]].compilers[key[2]], key[3])]
    ELSE <<>>

-----------------------------------------------------------------------------
(* process_job_blob: pure parts                                            *)

ServiceKey == "OTEL_SERVICE_NAME"

TraceparentKey == "TRACEPARENT"

\* the string "Start delay time"
StartDelayName == <<"S", "t", "a", "r", "t", " ", "d", "e", "l", "a", "y", " ", "t", "i", "m", "e">>

\* the string "Top-level workflow root"
RootSpanName == <<"T", "o", "p", "-", "l", "e", "v", "e", "l", " ", "w", "o", "r", "k", "f", "l", "o", "w", " ", "r", "o", "o", "t">>

Strip(s) ==
    IF \A i \in 1..Len(s) : s[i] = " " THEN <<>>
    ELSE LET a == CHOOSE i \in 1..Len(s) : s[i] # " " /\ \A h \in 1..(i - 1) : s[h] = " "
             b == CHOOSE i \in 1..Len(s) : s[i] # " " /\ \A h \in (i + 1)..Len(s) : s[h] = " "
         IN  SubSeq(s, a, b)

HasSlash(name) == \E i \in 1..Len(name) : name[i] = "/"

FirstSlash(name) == CHOOSE i \in 1..Len(name) : name[i] = "/" /\ \A h \in 1..(i - 1) : name[h] # "/"

\* a bug: the job is taken for the top-level workflow when the part of its
\* name before the "/" is the service name
IsTopLevelWorkflowByPrefix(job, env) ==
    (IF HasSlash(job.name) THEN Strip(SubSeq(job.name, 1, FirstSlash(job.name) - 1))
     ELSE job.name) = env[ServiceKey]

\* line 237: job["name"] == env_vars["OTEL_SERVICE_NAME"]
IsTopLevelWorkflow(job, env) == job.name = env[ServiceKey]

\* job_name of lines 242-247
JobServiceName(name) ==
    IF HasSlash(name) THEN Strip(SubSeq(name, 1, FirstSlash(name) - 1)) ELSE name

\* a bug: the matrix part is what follows the last "/"
MatrixPartAfterLastSlash(name) ==
    IF HasSlash(name) THEN Strip(Split(name, "/")[Len(Split(name, "/"))]) ELSE None

\* matrix_part of lines 242-247
MatrixPart(name) ==
    IF HasSlash(name) THEN Strip(SubSeq(name, FirstSlash(name) + 1, Len(name))) ELSE None

\* name=matrix_part or job["name"]
JobSpanName(name) == IF MatrixPart(name) # None THEN MatrixPart(name) ELSE name

JobCreate(job, first_ts) == date_str_to_epoch(job.created_at, first_ts)

JobStart(job, first_ts) == date_str_to_epoch(job.started_at, first_ts)

JobLastTimestamp(job, first_ts) == date_str_to_epoch(job.completed_at, JobStart(job, first_ts))

JobRaises(job) ==
    \/ StrptimeRaises(job.created_at)
    \/ StrptimeRaises(job.started_at)
    \/ StrptimeRaises(job.completed_at)

\* a bug: a step without started_at starts at 0
StepStartFromZero(step, job_last) == date_str_to_epoch(step.started_at, 0)

\* line 295
StepStart(step, job_last) == date_str_to_epoch(step.started_at, job_last)

StepEnd(step, job_last) == date_str_to_epoch(step.completed_at, StepStart(step, job_last))

StepRaises(step) == StrptimeRaises(step.started_at) \/ StrptimeRaises(step.completed_at)

\* (step_end - step_start) / 1e9 > 1
StepLongEnough(start, end) ==
    end - start > MinStepSeconds * TicksPerSec

\* a bug: the end of a step is not folded into the job's last timestamp
JobLastTimestampKept(end, job_last) == job_last

\* a bug: the job's last timestamp is the end of the step last walked
JobLastTimestampOverwritten(end, job_last) == end

\* line 297: job_last_timestamp = max(step_end, job_last_timestamp)
NextJobLastTimestamp(end, job_last) == Max(end, job_last)

\* a bug: the start-delay span is started when the job starts
DelaySpanFromStart(job, job_create, job_start, gen, parent) ==
    EndSpan(StartSpan("delay", job, 0, StartDelayName, job_start,
                      update_step_name(gen, StartDelayName), parent),
            job_start)

\* a bug: the start-delay span is started outside the job span
DelaySpanWithoutParent(job, job_create, job_start, gen, parent) ==
    EndSpan(StartSpan("delay", job, 0, StartDelayName, job_create,
                      update_step_name(gen, StartDelayName), NoSpan),
            job_start)

\* lines 289-291: the start-delay span, started at job_create and ended at job_start
DelaySpan(job, job_create, job_start, gen, parent) ==
    EndSpan(StartSpan("delay", job, 0, StartDelayName, job_create,
                      update_step_name(gen, StartDelayName), parent),
            job_start)

\* the value process_job_blob returns on every path: its last_timestamp argument
ProcessJobBlobReturn(last_ts, job_last) == last_ts

-----------------------------------------------------------------------------
(* main                                                                    *)

\* a bug: the trace id is read from the span-id field
TraceIdOfSpanField(traceparent) == HexToInt(Split(traceparent, "-")[3])

\* line 361: int(env_vars["TRACEPARENT"].split("-")[1], 16)
TraceIdOf(traceparent) == HexToInt(Split(traceparent, "-")[2])

\* lines 342-361 raise: jobs[0] of an empty list, a timestamp of jobs[0] that
\* strptime rejects, a key missing from env_vars (or env_vars never bound,
\* when there is no attribute folder), a traceparent without a second field,
\* or one whose second field int(.., 16) rejects
MainRaises ==
    IF jobs = <<>> THEN TRUE
    ELSE IF StrptimeRaises(jobs[1].created_at) THEN TRUE
    ELSE IF StrptimeRaises(jobs[1].completed_at) THEN TRUE
    ELSE IF ServiceKey \notin DOMAIN env_vars THEN TRUE
    ELSE IF TraceparentKey \notin DOMAIN env_vars THEN TRUE
    ELSE IF Len(Split(env_vars[TraceparentKey], "-")) < 2 THEN TRUE
    ELSE ~IsHex(Split(env_vars[TraceparentKey], "-")[2])

\* a bug: the root span is started before the job list and the
\* configuration are read
MainAbortWithRootSpan ==
    /\ pc = "start"
    /\ UNCHANGED nightly_vars
    /\ MainRaises
    /\ root_span' = set_status(StartSpan("root", 0, 0, RootSpanName, 0,
                                         RapidsSpanIdGenerator(0, None), NoSpan),
                               "ERROR")
    /\ pc' = "error"
    /\ UNCHANGED <<jobs, env_vars, stats_files, attributes, sccache_stats,
                   first_timestamp, last_timestamp, trace_id, idx, job_span,
                   id_generator, job_last_timestamp, k, step_start, step_end, sink>>

\* lines 342-361 raise: no span has been started
MainAbort ==
    /\ pc = "start"
    /\ UNCHANGED nightly_vars
    /\ MainRaises
    /\ pc' = "error"
    /\ UNCHANGED <<jobs, env_vars, stats_files, attributes, sccache_stats,
                   first_timestamp, last_timestamp, trace_id, root_span, idx, job_span,
                   id_generator, job_last_timestamp, k, step_start, step_end, sink>>

\* lines 342-373: up to the root span being started
MainStart ==
    /\ pc = "start"
    /\ UNCHANGED nightly_vars
    /\ ~MainRaises
    /\ first_timestamp' = date_str_to_epoch(jobs[1].created_at, 0)
    /\ last_timestamp' = date_str_to_epoch(jobs[1].completed_at, 0)
    /\ trace_id' = TraceIdOf(env_vars[TraceparentKey])
    /\ root_span' = StartSpan("root", 0, 0, RootSpanName, first_timestamp',
                              RapidsSpanIdGenerator(trace_id', env_vars[ServiceKey]),
                              NoSpan)
    /\ idx' = 1
    /\ pc' = "loop"
    /\ UNCHANGED <<jobs, env_vars, stats_files, attributes, sccache_stats, job_span,
                   id_generator, job_last_timestamp, k, step_start, step_end, sink>>

\* lines 237-239: the job is the top-level workflow
JobSkipService ==
    /\ pc = "loop"
    /\ UNCHANGED nightly_vars
    /\ idx <= Len(jobs)
    /\ IsTopLevelWorkflow(jobs[idx], env_vars)
    /\ last_timestamp' = ProcessJobBlobReturn(last_timestamp, job_last_timestamp)
    /\ idx' = idx + 1
    /\ UNCHANGED <<pc, jobs, env_vars, stats_files, attributes, sccache_stats,
                   first_timestamp, trace_id, root_span, job_span, id_generator,
                   job_last_timestamp, k, step_start, step_end, sink>>

\* lines 251-256: strptime raises; the exception leaves the root span's "with",
\* which sets the span's status to ERROR and (end_on_exit=False) does not end
\* it, and then the process
JobAbort ==
    /\ pc = "loop"
    /\ UNCHANGED nightly_vars
    /\ idx <= Len(jobs)
    /\ ~IsTopLevelWorkflow(jobs[idx], env_vars)
    /\ JobRaises(jobs[idx])
    /\ root_span' = set_status(root_span, "ERROR")
    /\ pc' = "error"
    /\ UNCHANGED <<jobs, env_vars, stats_files, attributes, sccache_stats,
                   first_timestamp, last_timestamp, trace_id, idx, job_span,
                   id_generator, job_last_timestamp, k, step_start, step_end, sink>>

\* lines 258-260
JobSkipEmpty ==
    /\ pc = "loop"
    /\ UNCHANGED nightly_vars
    /\ idx <= Len(jobs)
    /\ ~IsTopLevelWorkflow(jobs[idx], env_vars)
    /\ ~JobRaises(jobs[idx])
    /\ JobStart(jobs[idx], first_timestamp) = 0
    /\ last_timestamp' = ProcessJobBlobReturn(last_timestamp, job_last_timestamp)
    /\ idx' = idx + 1
    /\ UNCHANGED <<pc, jobs, env_vars, stats_files, attributes, sccache_stats,
                   first_timestamp, trace_id, root_span, job_span, id_generator,
                   job_last_timestamp, k, step_start, step_end, sink>>

\* lines 274-292: the job span is started, the start-delay span started and ended
JobBegin ==
    /\ pc = "loop"
    /\ UNCHANGED nightly_vars
    /\ idx <= Len(jobs)
    /\ ~IsTopLevelWorkflow(jobs[idx], env_vars)
    /\ ~JobRaises(jobs[idx])
    /\ JobStart(jobs[idx], first_timestamp) # 0
    /\ LET job == jobs[idx]
           job_create == JobCreate(job, first_timestamp)
           job_start == JobStart(job, first_timestamp)
           gen == RapidsSpanIdGenerator(trace_id, job.name)
           span == set_status(StartSpan("job", idx, 0, JobSpanName(job.name), job_create,
                                        gen, root_span),
                              map_conclusion_to_status_code(job.conclusion))
       IN  /\ attributes' = ("service.name" :> JobServiceName(job.name))
           /\ sccache_stats' = get_sccache_stats(stats_files)
           /\ job_span' = span
           /\ id_generator' = update_step_name(gen, StartDelayName)
           /\ job_last_timestamp' = JobLastTimestamp(job, first_timestamp)
           /\ sink' = on_end(sink, DelaySpan(idx, job_create, job_start, gen, span))
    /\ k' = 1
    /\ pc' = "steps"
    /\ UNCHANGED <<jobs, env_vars, stats_files, first_timestamp, last_timestamp,
                   trace_id, root_span, idx, step_start, step_end>>

\* lines 295-296: strptime raises inside the step loop; the exception leaves
\* the "with" of the job span and that of the root span, which set the status
\* of each to ERROR and end neither
StepAbort ==
    /\ pc = "steps"
    /\ UNCHANGED nightly_vars
    /\ k <= Len(jobs[idx].steps)
    /\ StepRaises(jobs[idx].steps[k])
    /\ job_span' = set_status(job_span, "ERROR")
    /\ root_span' = set_status(root_span, "ERROR")
    /\ pc' = "error"
    /\ UNCHANGED <<jobs, env_vars, stats_files, attributes, sccache_stats,
                   first_timestamp, last_timestamp, trace_id, idx, id_generator,
                   job_last_timestamp, k, step_start, step_end, sink>>

\* lines 294-334: one iteration of the step loop
Step ==
    /\ pc = "steps"
    /\ UNCHANGED nightly_vars
    /\ k <= Len(jobs[idx].steps)
    /\ ~StepRaises(jobs[idx].steps[k])
    /\ LET step == jobs[idx].steps[k]
           gen == update_step_name(id_generator, step.name)
           span == set_status(WithAttributes(StartSpan("step", idx, k, step.name,
                                                       step_start', gen, job_span),
                                             SpanAttributes(step.name, sccache_stats)),
                              map_conclusion_to_status_code(step.conclusion))
       IN  /\ step_start' = StepStart(step, job_last_timestamp)
           /\ step_end' = StepEnd(step, job_last_timestamp)
           /\ job_last_timestamp' = NextJobLastTimestamp(step_end', job_last_timestamp)
           /\ id_generator' = gen
           /\ sink' = IF StepLongEnough(step_start', step_end')
                      THEN on_end(sink, EndSpan(span, step_end'))
                      ELSE sink
    /\ k' = k + 1
    /\ UNCHANGED <<pc, jobs, env_vars, stats_files, attributes, sccache_stats,
                   first_timestamp, last_timestamp, trace_id, root_span, idx, job_span>>

\* a bug: a failed job makes the root span an error
JobEndAggregating ==
    /\ pc = "steps"
    /\ UNCHANGED nightly_vars
    /\ k > Len(jobs[idx].steps)
    /\ sink' = on_end(sink, EndSpan(job_span, job_last_timestamp))
    /\ job_span' = NoSpan
    /\ root_span' = IF job_span.status = "ERROR" THEN set_status(root_span, "ERROR")
                    ELSE root_span
    /\ last_timestamp' = ProcessJobBlobReturn(last_timestamp, job_last_timestamp)
    /\ idx' = idx + 1
    /\ pc' = "loop"
    /\ UNCHANGED <<jobs, env_vars, stats_files, attributes, sccache_stats,
                   first_timestamp, trace_id, id_generator,
                   job_last_timestamp, k, step_start, step_end>>

\* lines 335-337: the job span is ended and process_job_blob returns
JobEnd ==
    /\ pc = "steps"
    /\ UNCHANGED nightly_vars
    /\ k > Len(jobs[idx].steps)
    /\ sink' = on_end(sink, EndSpan(job_span, job_last_timestamp))
    /\ job_span' = NoSpan
    /\ last_timestamp' = ProcessJobBlobReturn(last_timestamp, job_last_timestamp)
    /\ idx' = idx + 1
    /\ pc' = "loop"
    /\ UNCHANGED <<jobs, env_vars, stats_files, attributes, sccache_stats,
                   first_timestamp, trace_id, root_span, id_generator,
                   job_last_timestamp, k, step_start, step_end>>

\* line 382: the root span is ended
MainEnd ==
    /\ pc = "loop"
    /\ UNCHANGED nightly_vars
    /\ idx > Len(jobs)
    /\ sink' = on_end(sink, EndSpan(root_span, last_timestamp))
    /\ root_span' = NoSpan
    /\ pc' = "done"
    /\ UNCHANGED <<jobs, env_vars, stats_files, attributes, sccache_stats,
                   first_timestamp, last_timestamp, trace_id, idx, job_span,
                   id_generator, job_last_timestamp, k, step_start, step_end>>

Next ==
    \/ MainAbort
    \/ MainStart
    \/ JobSkipService
    \/ JobAbort
    \/ JobSkipEmpty
    \/ JobBegin
    \/ StepAbort
    \/ Step
    \/ JobEnd
    \/ MainEnd

-----------------------------------------------------------------------------
(* Inputs                                                                  *)

\* timestamps of the input name the seconds 1..MaxSec
MaxSec == 3

\* the longest job list
MaxJobs == 2

\* the longest step list
MaxSteps == 2

Ts(n) == <<"ts", n>>

\* a timestamp of the input: absent, or a second of 1..MaxSec
Dates == {None} \cup {Ts(n) : n \in 1..MaxSec}

\* a non-empty string that is not a timestamp
BadDate == <<"junk">>

ServiceName == <<"w">>

\* "00-1f-2a-01" and "00-2a-1f-01": traceparents, with the identifiers
\* shortened to two hex digits
Traceparent == <<"0", "0", "-", "1", "f", "-", "2", "a", "-", "0", "1">>

OtherTraceparent == <<"0", "0", "-", "2", "a", "-", "1", "f", "-", "0", "1">>

EnvOf(service, traceparent) == (ServiceKey :> service) @@ (TraceparentKey :> traceparent)

Env == EnvOf(ServiceName, Traceparent)

\* "ff-1f-2a-01": the version is not 00
VersionTraceparent == <<"f", "f", "-", "1", "f", "-", "2", "a", "-", "0", "1">>

\* "00-1f": the parent id and the flags are missing
ShortTraceparent == <<"0", "0", "-", "1", "f">>

\* "00-1f0-2a-01": the trace id has a digit too many
LongIdTraceparent == <<"0", "0", "-", "1", "f", "0", "-", "2", "a", "-", "0", "1">>

\* "00-1f-zz-01": the parent id is not hexadecimal
NonHexParentTraceparent == <<"0", "0", "-", "1", "f", "-", "z", "z", "-", "0", "1">>

\* "00-zz-2a-01": the trace id is not hexadecimal
NonHexTraceparent == <<"0", "0", "-", "z", "z", "-", "2", "a", "-", "0", "1">>

\* "00": there is no field after the version
NoFieldTraceparent == <<"0", "0">>

\* telemetry-env-vars as found: complete, with another traceparent, with a
\* traceparent that is not one, without one of the two keys, and not found
\* at all
Envs == {Env,
         EnvOf(ServiceName, OtherTraceparent),
         EnvOf(ServiceName, VersionTraceparent),
         EnvOf(ServiceName, ShortTraceparent),
         EnvOf(ServiceName, LongIdTraceparent),
         EnvOf(ServiceName, NonHexParentTraceparent),
         EnvOf(ServiceName, NonHexTraceparent),
         EnvOf(ServiceName, NoFieldTraceparent),
         (ServiceKey :> ServiceName),
         (TraceparentKey :> Traceparent),
         <<>>}

StepRecord(name, started_at, completed_at, conclusion) ==
    [name |-> name, started_at |-> started_at, completed_at |-> completed_at,
     conclusion |-> conclusion]

JobRecord(name, created_at, started_at, completed_at, conclusion, steps) ==
    [name |-> name, created_at |-> created_at, started_at |-> started_at,
     completed_at |-> completed_at, conclusion |-> conclusion, steps |-> steps]

\* the sequences over S of length at most n
SeqsUpTo(S, n) == UNION {[1..m -> S] : m \in 0..n}

\* a step with any combination of timestamps
TimedSteps == {StepRecord(<<"c">>, s, e, "success") : s \in Dates, e \in Dates}

\* one job with any combination of timestamps, without steps or with one step
OneStepInputs ==
    {<<JobRecord(<<"b">>, c, s, e, "success", st)>> :
        c \in Dates, s \in Dates, e \in Dates, st \in SeqsUpTo(TimedSteps, 1)}

\* one job created and started at second 1, running or completed at second
\* 2, with up to MaxSteps steps
StepChainInputs ==
    {<<JobRecord(<<"b">>, Ts(1), Ts(1), e, "success", st)>> :
        e \in {None, Ts(2)}, st \in SeqsUpTo(TimedSteps, MaxSteps)}

\* a job without steps, queued or started at second MaxSec, running or
\* completed at second MaxSec
RunningJobs ==
    {JobRecord(<<"b">>, c, s, e, "success", <<>>) :
        c \in Dates, s \in {None, Ts(MaxSec)}, e \in {None, Ts(MaxSec)}}

\* up to MaxJobs jobs without steps
ManyJobInputs == SeqsUpTo(RunningJobs, MaxJobs)

\* a job with at most one step, with timestamps given or malformed
BadDateJobs ==
    {JobRecord(<<"b">>, c, Ts(1), e, "success", st) :
        c \in {Ts(1), BadDate}, e \in {Ts(MaxSec), BadDate},
        st \in SeqsUpTo({StepRecord(<<"c">>, ss, se, "success") :
                             ss \in {Ts(1), BadDate}, se \in {Ts(MaxSec), BadDate}}, 1)}

BadDateInputs == SeqsUpTo(BadDateJobs, MaxJobs)

\* "w", "b", "b / x", "w / x", "b /" and "b/x/y"
JobNames == {ServiceName, <<"b">>, <<"b", " ", "/", " ", "x">>,
             <<"w", " ", "/", " ", "x">>, <<"b", " ", "/">>,
             <<"b", "/", "x", "/", "y">>}

StepNames == {<<"c">>, <<"d">>}

\* the conclusions of a job or step; "" is the empty string or null
Conclusions == {"success", "failure", "cancelled", "skipped", ""}

\* up to MaxJobs jobs that ran from second 1 to second MaxSec, whatever their
\* names, each with the same steps, which ran as long, whatever their names
NamedInputs ==
    {[i \in 1..Len(names) |->
         JobRecord(names[i], Ts(1), Ts(1), Ts(MaxSec), "success", st)] :
        names \in SeqsUpTo(JobNames, MaxJobs),
        st \in SeqsUpTo({StepRecord(sn, Ts(1), Ts(MaxSec), "success") : sn \in StepNames},
                        MaxSteps)}

\* one running or completed job with two steps, the second without
\* started_at and completed at any time up to second MaxSec + 1
FallbackInputs ==
    {<<JobRecord(<<"b">>, Ts(1), Ts(1), e, "success",
                 <<StepRecord(<<"c">>, Ts(1), e1, "success"),
                   StepRecord(<<"d">>, None, e2, "success")>>)>> :
        e \in {None, Ts(2)}, e1 \in Dates, e2 \in Dates \cup {Ts(MaxSec + 1)}}

\* "b / x" and "b", each with one step, whatever their conclusions
ConcludedInputs ==
    {<<JobRecord(<<"b", " ", "/", " ", "x">>, Ts(1), Ts(1), Ts(MaxSec), jc,
                 <<StepRecord(<<"c">>, Ts(1), Ts(MaxSec), sc)>>),
       JobRecord(<<"b">>, Ts(1), Ts(1), Ts(MaxSec), jd,
                 <<StepRecord(<<"d">>, Ts(1), Ts(MaxSec), sd)>>)>> :
        jc \in Conclusions, sc \in Conclusions, jd \in Conclusions, sd \in Conclusions}

\* one job with one step, for every telemetry-env-vars
EnvInputs ==
    {<<JobRecord(<<"b">>, Ts(1), Ts(1), Ts(MaxSec), "success",
                 <<StepRecord(<<"c">>, Ts(1), Ts(MaxSec), "success")>>)>>}

\* "a" and "ab"
ShortJobNames == {<<"a">>, <<"a", "b">>}

\* "b", "c", "bc" and "Start delay time"
ShortStepNames == {<<"b">>, <<"c">>, <<"b", "c">>, StartDelayName}

\* two jobs with short names, each with one step with a short name
ShortNameInputs ==
    {<<JobRecord(n1, Ts(1), Ts(1), Ts(MaxSec), "success",
                 <<StepRecord(s1, Ts(1), Ts(MaxSec), "success")>>),
       JobRecord(n2, Ts(1), Ts(1), Ts(MaxSec), "success",
                 <<StepRecord(s2, Ts(1), Ts(MaxSec), "success")>>)>> :
        n1 \in ShortJobNames, s1 \in ShortStepNames,
        n2 \in ShortJobNames, s2 \in ShortStepNames}

\* the counts of a stats file are 0..MaxCount
MaxCount == 1

\* the longest stats file, in lines
MaxLines == 2

StatsLines ==
    {RequestsLine(n) : n \in 0..MaxCount}
    \cup {CacheLine(result, lang, n) :
              result \in {"hits", "misses", "errors"}, lang \in {"c", "cuda"},
              n \in 0..MaxCount}
    \cup {OtherLine}

NoStatsFiles == <<>>

\* the artifact folder: without stats file, or with sccache-stats.txt
StatsFolders ==
    {NoStatsFiles}
    \cup {<<StatsFile("main_process", lines)>> : lines \in SeqsUpTo(StatsLines, MaxLines)}

\* "C Build" and "c"
BuildStepNames == {<<"C", " ", "B", "u", "i", "l", "d">>, <<"c">>}

\* one job with one step, a build step or not
BuildInputs ==
    {<<JobRecord(<<"b">>, Ts(1), Ts(1), Ts(MaxSec), "success",
                 <<StepRecord(sn, Ts(1), Ts(MaxSec), "success")>>)>> :
        sn \in BuildStepNames}

\* the job lists read under the complete telemetry-env-vars, from a folder
\* without stats file
JobInputs ==
    OneStepInputs \cup StepChainInputs \cup ManyJobInputs \cup BadDateInputs
    \cup FallbackInputs \cup NamedInputs \cup ConcludedInputs \cup ShortNameInputs

\* what the run reads: all_jobs.json, telemetry-env-vars and the stats files
Inputs ==
    \/ \E j \in JobInputs :
           jobs = j /\ env_vars = Env /\ stats_files = NoStatsFiles
    \/ \E j \in EnvInputs, e \in Envs :
           jobs = j /\ env_vars = e /\ stats_files = NoStatsFiles
    \/ \E j \in BuildInputs, f \in StatsFolders :
           jobs = j /\ env_vars = Env /\ stats_files = f

\* send_trace.py runs alone: check.py is a separate program
NightlyIdle ==
    /\ nightly_pc = "idle"
    /\ server = <<>>
    /\ max_retries = 0
    /\ call = ""
    /\ queries = <<>>
    /\ url = <<>>
    /\ params = <<>>
    /\ data = <<>>
    /\ page_num = 0
    /\ page = <<>>
    /\ fetched = <<>>
    /\ exceptions = <<>>
    /\ events = <<>>
    /\ successful_runs = <<>>
    /\ all_runs = <<>>
    /\ bound = {}
    /\ exit_code = <<>>

Init ==
    /\ pc = "start"
    /\ Inputs
    /\ first_timestamp = 0
    /\ last_timestamp = 0
    /\ trace_id = 0
    /\ root_span = NoSpan
    /\ idx = 0
    /\ job_span = NoSpan
    /\ id_generator = RapidsSpanIdGenerator(0, None)
    /\ job_last_timestamp = 0
    /\ k = 0
    /\ step_start = 0
    /\ step_end = 0
    /\ sink = <<>>
    /\ attributes = <<>>
    /\ sccache_stats = <<>>
    /\ NightlyIdle

Spec == Init /\ [][Next]_vars

-----------------------------------------------------------------------------
(* Properties                                                              *)

\* the spans handed to the sink
SinkSpans == {sink[n] : n \in 1..Len(sink)}

OfKind(kind) == {s \in SinkSpans : s.kind = kind}

\* the spans started: those handed to the sink and those still open
StartedSpans == SinkSpans \cup ({root_span, job_span} \ {NoSpan})

\* job i of the list has been handed to process_job_blob, which has returned
Returned(i) == i < idx \/ pc = "done"

\* job i is not bypassed by process_job_blob (lines 237 and 258)
Processed(i) ==
    /\ jobs[i].name # env_vars[ServiceKey]
    /\ date_str_to_epoch(jobs[i].started_at, first_timestamp) # 0

\* the run failed for its configuration or for an empty job list
ConfigurationOrInputError ==
    \/ jobs = <<>>
    \/ ServiceKey \notin DOMAIN env_vars
    \/ TraceparentKey \notin DOMAIN env_vars

\* C1: when the run is done, the root span's interval contains the interval
\* of every job span: root.start <= job.start and job.end <= root.end.
C1_RootContainsJobSpans ==
    pc = "done" =>
        \A r \in OfKind("root"), j \in OfKind("job") :
            r.start_time <= j.start_time /\ j.end_time <= r.end_time

\* C2: when the run is done and job spans were emitted, the root span's end
\* time is the maximum end time over the job spans and step spans.
C2_RootEndIsMaxEnd ==
    (pc = "done" /\ OfKind("job") # {}) =>
        \A r \in OfKind("root") :
            /\ \A s \in OfKind("job") \cup OfKind("step") : s.end_time <= r.end_time
            /\ \E s \in OfKind("job") \cup OfKind("step") : s.end_time = r.end_time

C4_DurationFloor ==
    (pc = "steps" /\ k > 1) =>
        ((\E s \in OfKind("step") : s.job = idx /\ s.step = k - 1)
             <=> step_end - step_start >= TicksPerSec)

\* C5: no span is made for a job whose created_at and started_at are both
\* absent.
C5_EmptyJobSkipped ==
    \A i \in 1..Len(jobs) :
        (jobs[i].created_at = None /\ jobs[i].started_at = None) =>
            \A s \in StartedSpans : s.job # i

\* timestamp a is absent, or b is, or a is not after b
NotAfter(a, b) ==
    /\ ~StrptimeRaises(a)
    /\ ~StrptimeRaises(b)
    /\ (a # None /\ b # None) => Strptime(a) <= Strptime(b)

\* the timestamps present in the input are in the order of the events:
\* a job is created, started, its steps start and complete, it completes
Chronological ==
    \A i \in 1..Len(jobs) :
        /\ NotAfter(jobs[i].created_at, jobs[i].started_at)
        /\ NotAfter(jobs[i].created_at, jobs[i].completed_at)
        /\ NotAfter(jobs[i].started_at, jobs[i].completed_at)
        /\ \A n \in 1..Len(jobs[i].steps) :
               LET step == jobs[i].steps[n]
               IN  /\ NotAfter(step.started_at, step.completed_at)
                   /\ NotAfter(jobs[i].created_at, step.started_at)
                   /\ NotAfter(jobs[i].started_at, step.started_at)
                   /\ NotAfter(jobs[i].created_at, step.completed_at)
                   /\ NotAfter(jobs[i].started_at, step.completed_at)

\* C6: whichever timestamps of the input are present and whichever absent,
\* every span handed to the sink has start <= end.
C6_StartNotAfterEnd ==
    Chronological => \A s \in SinkSpans : s.start_time <= s.end_time

\* C7: the run fails only for its configuration or for an empty job list,
\* never for a timestamp: a malformed timestamp does not abort the walk.
C7_MalformedDoesNotAbort == pc = "error" => ConfigurationOrInputError

\* C8: every span carries the run's trace id, and its span id is the digest
\* of the trace id, the full name of its job (the service name for the root
\* span) and its step name if it has one ("Start delay time" for the
\* start-delay span), whatever the timestamps and conclusions are.
C8_IdsFromNames ==
    \A s \in StartedSpans :
        /\ s.trace_id = trace_id
        /\ s.span_id =
               Sha256(Str(trace_id)
                      \o (IF s.kind = "root" THEN env_vars[ServiceKey]
                          ELSE jobs[s.job].name)
                      \o (IF s.kind = "delay" THEN StartDelayName
                          ELSE IF s.kind = "step" THEN jobs[s.job].steps[s.step].name
                          ELSE <<>>))

\* a finished run of two jobs with different names, with a span for a step
\* of each
C8_Witness ==
    /\ pc = "done"
    /\ Len(jobs) = 2
    /\ jobs[1].name # jobs[2].name
    /\ \E s \in OfKind("step") : s.job = 1
    /\ \E s \in OfKind("step") : s.job = 2 /\ s.step = 2

SinkPositions(kind, i) == {n \in 1..Len(sink) : sink[n].kind = kind /\ sink[n].job = i}

\* the job's last timestamp once the first n steps of job i have been walked:
\* the job's completed time, else its started time, and the ends of those steps
RECURSIVE WatermarkAfter(_, _)
WatermarkAfter(i, n) ==
    IF n = 0
    THEN date_str_to_epoch(jobs[i].completed_at,
                           date_str_to_epoch(jobs[i].started_at, first_timestamp))
    ELSE LET before == WatermarkAfter(i, n - 1)
             start == date_str_to_epoch(jobs[i].steps[n].started_at, before)
             end == date_str_to_epoch(jobs[i].steps[n].completed_at, start)
         IN  IF end > before THEN end ELSE before

\* the steps of job i that last longer than the duration floor of the code
LongSteps(i) ==
    {n \in 1..Len(jobs[i].steps) :
        LET before == WatermarkAfter(i, n - 1)
            start == date_str_to_epoch(jobs[i].steps[n].started_at, before)
            end == date_str_to_epoch(jobs[i].steps[n].completed_at, start)
        IN  end - start > MinStepSeconds * TicksPerSec}

StepStartOf(i, n) ==
    date_str_to_epoch(jobs[i].steps[n].started_at, WatermarkAfter(i, n - 1))

StepEndOf(i, n) == date_str_to_epoch(jobs[i].steps[n].completed_at, StepStartOf(i, n))

\* the greatest number of a non-empty finite set of numbers
MaxOf(S) == CHOOSE m \in S : \A n \in S : n <= m

\* the job's last timestamp before its steps are walked, and the ends of its
\* steps before step n
EarlierEnds(i, n) ==
    {date_str_to_epoch(jobs[i].completed_at,
                       date_str_to_epoch(jobs[i].started_at, first_timestamp))}
    \cup {StepEndOf(i, m) : m \in 1..(n - 1)}

\* C11: a step without started_at starts at the job's running watermark, the
\* greatest of the job's initial last timestamp and the ends of the steps
\* before it, whether it gets a span or not; and no step span handed to the
\* sink ends before it starts.
C11_StartFallsBackToWatermark ==
    /\ (pc = "steps" /\ k > 1 /\ jobs[idx].steps[k - 1].started_at = None) =>
           step_start = MaxOf(EarlierEnds(idx, k - 1))
    /\ \A s \in OfKind("step") :
           /\ s.start_time <= s.end_time
           /\ jobs[s.job].steps[s.step].started_at = None =>
                  s.start_time = MaxOf(EarlierEnds(s.job, s.step))

\* a second step without started_at has a span that starts where the first
\* step ended, later than the job's initial last timestamp
C11_Witness ==
    \E s \in OfKind("step") :
        /\ s.step = 2
        /\ jobs[s.job].steps[2].started_at = None
        /\ s.start_time = StepEndOf(s.job, 1)
        /\ s.start_time > WatermarkAfter(s.job, 0)

\* C12: a step of the walk never lowers the job's last timestamp and leaves
\* it no earlier than the step's end, whether the step gets a span or not;
\* the job span ends at the greatest of the job's completed time (its started
\* time when absent) and the ends of all its steps.
C12_WatermarkMonotone ==
    [][/\ (pc = "steps" /\ pc' = "steps") =>
              /\ job_last_timestamp' >= job_last_timestamp
              /\ job_last_timestamp' >= step_end'
       /\ (pc = "steps" /\ pc' = "loop") =>
              /\ Len(sink') = Len(sink) + 1
              /\ sink'[Len(sink')].kind = "job"
              /\ sink'[Len(sink')].job = idx
              /\ sink'[Len(sink')].end_time
                     = MaxOf(EarlierEnds(idx, Len(jobs[idx].steps) + 1))]_vars

\* a job span that ends later than the job completed, at the end of a step
\* that has no span
C12_Witness ==
    \E j \in OfKind("job") :
        /\ jobs[j.job].completed_at # None
        /\ j.end_time > date_str_to_epoch(jobs[j.job].completed_at, 0)
        /\ \E n \in 1..Len(jobs[j.job].steps) :
               /\ StepEndOf(j.job, n) = j.end_time
               /\ \A s \in OfKind("step") : ~(s.job = j.job /\ s.step = n)

\* C13: when OTEL_SERVICE_NAME is missing from telemetry-env-vars, or the job
\* list is empty, the run does not get past its start: it fails, and no span
\* has been started or handed to the sink, the root span included.
C13_FatalBeforeAnySpan ==
    (jobs = <<>> \/ ServiceKey \notin DOMAIN env_vars) =>
        /\ pc \in {"start", "error"}
        /\ root_span = NoSpan
        /\ job_span = NoSpan
        /\ sink = <<>>

\* a run that failed for a job list with a job in it and telemetry-env-vars
\* that hold a traceparent and no service name
C13_Witness ==
    /\ pc = "error"
    /\ jobs # <<>>
    /\ TraceparentKey \in DOMAIN env_vars
    /\ ServiceKey \notin DOMAIN env_vars

\* A version-00 traceparent, with the identifiers as short as those of
\* Traceparent: four fields of hexadecimal digits, the first "00", each as long
\* as the field of Traceparent.
ValidTraceparent(traceparent) ==
    LET fields == Split(traceparent, "-")
        valid == Split(Traceparent, "-")
    IN  /\ Len(fields) = Len(valid)
        /\ fields[1] = valid[1]
        /\ \A i \in 1..Len(fields) : Len(fields[i]) = Len(valid[i]) /\ IsHex(fields[i])

\* C14: when the traceparent of telemetry-env-vars is not a valid version-00
\* traceparent, the run does not get past its start: it fails, and no span
\* has been started or handed to the sink.
C14_InvalidTraceparentFails ==
    (TraceparentKey \in DOMAIN env_vars /\ ~ValidTraceparent(env_vars[TraceparentKey])) =>
        /\ pc \in {"start", "error"}
        /\ root_span = NoSpan
        /\ job_span = NoSpan
        /\ sink = <<>>

\* the place of a span among the spans of its job: the start-delay span, the
\* step spans in the order of the steps, the job span
PlaceInJob(span) ==
    IF span.kind = "delay" THEN 0
    ELSE IF span.kind = "step" THEN span.step
    ELSE Len(jobs[span.job].steps) + 1

\* C15: the sink receives the spans job by job in the order of the job list,
\* and for a job the start-delay span, then the step spans in the order of
\* the steps, then the job span; the root span is received last, when every
\* job has been handed to process_job_blob; and when a span of a job has been
\* started, the job span of every earlier job with spans is in the sink.
C15_FinalizationOrder ==
    /\ \A m, n \in 1..Len(sink) :
           m < n =>
               /\ sink[m].kind # "root"
               /\ sink[n].kind # "root" =>
                      \/ sink[m].job < sink[n].job
                      \/ /\ sink[m].job = sink[n].job
                         /\ PlaceInJob(sink[m]) < PlaceInJob(sink[n])
    /\ OfKind("root") # {} => (pc = "done" /\ idx > Len(jobs))
    /\ \A s \in StartedSpans, t \in StartedSpans :
           (t.kind # "root" /\ t.job < s.job) =>
               \E j \in OfKind("job") : j.job = t.job

\* a finished run of two jobs, with two step spans for each
C15_Witness ==
    /\ pc = "done"
    /\ OfKind("root") # {}
    /\ Cardinality(SinkPositions("step", 1)) = 2
    /\ Cardinality(SinkPositions("step", 2)) = 2

\* job i has the name of the top-level workflow, letter for letter
NamedAsService(i) == jobs[i].name = env_vars[ServiceKey]

\* a step of the run, as C16 has it
ServiceJobStep ==
    ServiceKey \in DOMAIN env_vars =>
        /\ (pc = "loop" /\ idx <= Len(jobs) /\ NamedAsService(idx)) =>
               /\ last_timestamp' = last_timestamp
               /\ sink' = sink
               /\ job_span' = job_span
               /\ idx' = idx + 1
        /\ \A i \in 1..Len(jobs) :
               /\ NamedAsService(i) => \A s \in StartedSpans' : s.job # i
               /\ (~NamedAsService(i) /\ Returned(i)' /\ Processed(i)') =>
                      \E s \in OfKind("job")' : s.job = i

\* C16: handing process_job_blob a job whose name is the service name changes
\* neither the sink nor main's last timestamp, and no span is ever started
\* for such a job or its steps; a job with any other name, one that begins
\* with the service name included, is not bypassed for its name: it has its
\* job span once process_job_blob has returned.
C16_ServiceJobSkipped == [][ServiceJobStep]_vars

\* a finished run of a job named "w", the service name, and a job named
\* "w / x": the second has a job span and step spans, the first has no span
C16_Witness ==
    /\ pc = "done"
    /\ Len(jobs) = 2
    /\ jobs[1].name = env_vars[ServiceKey]
    /\ Len(jobs[1].steps) > 0
    /\ jobs[2].name = env_vars[ServiceKey] \o <<" ", "/", " ", "x">>
    /\ \E s \in OfKind("job") : s.job = 2
    /\ \E s \in OfKind("step") : s.job = 2
    /\ \A s \in SinkSpans : s.job # 1

\* the status C17 gives each conclusion
StatusOf ==
    [c \in Conclusions |->
        IF c = "success" THEN "OK" ELSE IF c = "failure" THEN "ERROR" ELSE "UNSET"]

\* the record of the input a job span or a step span was made for
RecordOf(span) == IF span.kind = "step" THEN jobs[span.job].steps[span.step]
                  ELSE jobs[span.job]

\* C17: every conclusion has a status: OK for "success", ERROR for "failure",
\* UNSET for any other; every job span and every step span handed to the sink
\* has the status of the conclusion of its own job or step, whatever the
\* conclusions of the other jobs and steps are.
C17_StatusFromOwnConclusion ==
    /\ \A c \in Conclusions : map_conclusion_to_status_code(c) = StatusOf[c]
    /\ \A s \in OfKind("job") \cup OfKind("step") :
           s.status = StatusOf[RecordOf(s).conclusion]

\* a finished run of a failed job with a cancelled step and a successful job
\* with a failed step, each span with its status
C17_Witness ==
    /\ pc = "done"
    /\ \E j \in OfKind("job"), s \in OfKind("step") :
           /\ s.job = j.job
           /\ jobs[j.job].conclusion = "failure" /\ j.status = "ERROR"
           /\ jobs[s.job].steps[s.step].conclusion = "cancelled" /\ s.status = "UNSET"
    /\ \E j \in OfKind("job"), s \in OfKind("step") :
           /\ s.job = j.job
           /\ jobs[j.job].conclusion = "success" /\ j.status = "OK"
           /\ jobs[s.job].steps[s.step].conclusion = "failure" /\ s.status = "ERROR"

\* the part of a name before its first "/", and the part after it
BeforeSlash(name) == Split(name, "/")[1]

AfterSlash(name) == SubSeq(name, Len(BeforeSlash(name)) + 2, Len(name))

\* C18 as stated: when the job's name has a "/" with something but blanks
\* after the first one, the service name is the trimmed part before it and
\* the job span's name the trimmed part after it; otherwise both are the
\* job's full name.
C18_NameSplit ==
    pc = "steps" =>
        LET name == jobs[idx].name
        IN  IF HasSlash(name) /\ Strip(AfterSlash(name)) # <<>>
            THEN /\ attributes["service.name"] = Strip(BeforeSlash(name))
                 /\ job_span.name = Strip(AfterSlash(name))
            ELSE /\ attributes["service.name"] = name
                 /\ job_span.name = name

\* C18 as amended: when the job's name has a "/", the service name is the
\* trimmed part before the first one, and the job span's name is the trimmed
\* part after it, or the job's full name when that part is empty; when the
\* name has no "/", both are the job's full name.
C18_NameSplitAtFirstSlash ==
    pc = "steps" =>
        LET name == jobs[idx].name
        IN  IF HasSlash(name)
            THEN /\ attributes["service.name"] = Strip(BeforeSlash(name))
                 /\ job_span.name = IF Strip(AfterSlash(name)) # <<>>
                                    THEN Strip(AfterSlash(name))
                                    ELSE name
            ELSE /\ attributes["service.name"] = name
                 /\ job_span.name = name

\* the job span of a job named "b/x/y" is open, named "x/y", under service "b"
C18_Witness ==
    /\ pc = "steps"
    /\ jobs[idx].name = <<"b", "/", "x", "/", "y">>
    /\ job_span.name = <<"x", "/", "y">>
    /\ attributes["service.name"] = <<"b">>

\* the three rates of a SccacheStats, and those of a Compiler
StatsRates(stats) ==
    {SccacheStats_hit_rate(stats), SccacheStats_miss_rate(stats),
     SccacheStats_error_rate(stats)}

CompilerRates(c) == {Compiler_hit_rate(c), Compiler_miss_rate(c), Compiler_error_rate(c)}

\* the rate was computed by a division by zero
DividedByZero(rate) == rate[2] = 0

\* C19: for the statistics read from a stats file, the three rates of the
\* file are 0 when its "Compile requests" count is 0, whatever its hit, miss
\* and error counts are, and the three rates of a language are 0 when its
\* hits, misses and errors add up to 0; no rate is computed by a division by
\* zero; and the rates attached to a step span are these.
C19_ZeroRequestsZeroRates ==
    /\ \A name \in DOMAIN sccache_stats :
           LET stats == sccache_stats[name]
           IN  /\ stats.requests = 0 => StatsRates(stats) = {ZeroRate}
               /\ \A rate \in StatsRates(stats) : ~DividedByZero(rate)
               /\ \A lang \in Langs :
                      /\ Compiler_requests(stats.compilers[lang]) = 0 =>
                             CompilerRates(stats.compilers[lang]) = {ZeroRate}
                      /\ \A rate \in CompilerRates(stats.compilers[lang]) :
                             ~DividedByZero(rate)
    /\ \A s \in OfKind("step") :
           \A key \in DOMAIN s.attributes :
               key[3] # "requests" =>
                   /\ ~DividedByZero(s.attributes[key])
                   /\ s.attributes[<<key[1], key[2], "requests">>] = 0 =>
                          s.attributes[key] = ZeroRate

\* a build step's span carries the rates of a stats file that counts cache
\* hits and no compile request: its hit rate is 0
C19_Witness ==
    \E s \in OfKind("step") :
        /\ <<"main_process", "", "hit_rate">> \in DOMAIN s.attributes
        /\ s.attributes[<<"main_process", "", "requests">>] = 0
        /\ SccacheStats_hits(sccache_stats["main_process"]) > 0
        /\ s.attributes[<<"main_process", "", "hit_rate">>] = ZeroRate
        /\ s.attributes[<<"main_process", "c", "requests">>] > 0

\* what a span is named by: the full name of its job (the service name for
\* the root span), and its step name if it is a step span; the start-delay
\* span of a job is told from a step span of that name
NamedBy(span) ==
    <<IF span.kind = "root" THEN env_vars[ServiceKey] ELSE jobs[span.job].name,
      span.kind = "delay",
      IF span.kind = "step" THEN jobs[span.job].steps[span.step].name ELSE None>>

\* C20: two spans handed to the sink that are named by different job names
\* or step names have different span ids.
C20_DistinctNamesDistinctIds ==
    \A s \in SinkSpans, t \in SinkSpans :
        NamedBy(s) # NamedBy(t) => s.span_id # t.span_id

\* the span ids of the root spans and of the job spans of job i, started or
\* handed to the sink
RootIds == {s.span_id : s \in {t \in StartedSpans : t.kind = "root"}}

JobIds(i) == {s.span_id : s \in {t \in StartedSpans : t.kind = "job" /\ t.job = i}}

\* C21: the spans form a tree of three levels: the root span has no parent;
\* the parent of every job span is the root span; the parent of every
\* start-delay span and step span is the job span of its own job, which is
\* not the root span.
C21_ThreeLevelTree ==
    \A s \in StartedSpans :
        /\ s.kind = "root" => s.parent = NoParent
        /\ s.kind = "job" =>
               /\ s.parent # NoParent
               /\ s.parent = Sha256(Str(trace_id) \o env_vars[ServiceKey])
               /\ RootIds # {} => s.parent \in RootIds
        /\ s.kind \in {"delay", "step"} =>
               /\ s.parent # NoParent
               /\ s.parent \in JobIds(s.job)
               /\ s.parent \notin RootIds

\* a finished run of two jobs with different names: the root span, and for
\* each job its job span, its start-delay span and a step span
C21_Witness ==
    /\ pc = "done"
    /\ OfKind("root") # {}
    /\ Len(jobs) = 2
    /\ jobs[1].name # jobs[2].name
    /\ \A i \in 1..2 :
           /\ SinkPositions("job", i) # {}
           /\ SinkPositions("delay", i) # {}
           /\ SinkPositions("step", i) # {}

\* C22: the root span has status UNSET as long as the walk goes on and when
\* it is handed to the sink, whatever the conclusions of the jobs and steps
\* are, "failure" included.
C22_RootStatusUnset ==
    /\ pc \in {"loop", "steps"} => root_span.status = "UNSET"
    /\ \A r \in OfKind("root") : r.status = "UNSET"

\* a finished run with a failed job that has a failed step, each with a span
\* of status ERROR, and the root span in the sink
C22_Witness ==
    /\ pc = "done"
    /\ OfKind("root") # {}
    /\ \E j \in OfKind("job"), s \in OfKind("step") :
           s.job = j.job /\ j.status = "ERROR" /\ s.status = "ERROR"

-----------------------------------------------------------------------------
\* check-nightly-success/check.py.  The functions are modelled as they are
\* written up to line 208 of the file; what follows in main (lines 210-243)
\* is not well-formed Python, and the model stops there ("unparsed").
\*
\* A URL is a sequence: that of the workflow's runs, or the link to page n of
\* the results of a query.  params (a dict) is a sequence of <<key, value>>
\* pairs, None the empty sequence.  A date-time string is <<"iso", n>>, the
\* datetime parsed from it the number n.

\* number of attempts a client may be given
MaxRetries == 2

\* number of pages the API holds for a query
MaxPages == 2

\* number of runs on a page
MaxRuns == 2

\* pages requested by one get_all_runs call: links that lead back to an
\* earlier page are followed up to here
MaxPageNum == 3

\* lines 32-37
ExitCode_FAILURE == 1

ExitCode_SUCCESS == 0

\* lines 160 and 186: the url of both queries
BaseUrl == <<"runs">>

PageUrl(query, n) == <<"runs", query, n>>

\* lines 162-171
SuccessParams ==
    << <<"branch", "b">>, <<"status", "success">>, <<"per_page", "p">>,
       <<"created", "d">> >>

\* lines 188-195
AllParams == << <<"branch", "b">>, <<"per_page", "p">>, <<"created", "d">> >>

\* the API: a run as the JSON of a response holds it
JsonRun(query, p, i) ==
    [id |-> i, html_url |-> <<query, p, i>>, run_started_at |-> <<"iso", p + i>>]

\* the API: which query a request is for, and which page of its results
QueryOf(u, ps) ==
    IF u # BaseUrl THEN u[2]
    ELSE IF \E i \in 1..Len(ps) : ps[i] = <<"status", "success">> THEN "success"
    ELSE "all"

PageOf(u) == IF u # BaseUrl THEN u[3] ELSE 1

\* the API: the Link header of page p of a query
Links(srv, query, p) ==
    (IF srv[query][p].next # 0
     THEN {<<"next", PageUrl(query, srv[query][p].next)>>,
           <<"last", PageUrl(query, Len(srv[query]))>>}
     ELSE {})
    \cup (IF p > 1 THEN {<<"first", PageUrl(query, 1)>>} ELSE {})

\* lines 63-68: the response to a request that succeeds
Respond(srv, u, ps) ==
    [workflow_runs |-> [i \in 1..srv[QueryOf(u, ps)][PageOf(u)].count |->
                            JsonRun(QueryOf(u, ps), PageOf(u), i)],
     links |-> Links(srv, QueryOf(u, ps), PageOf(u))]

\* line 90
fromisoformat(date_string) == date_string[2]

\* lines 88-91
WorkflowRun(workflow_run) ==
    [html_url |-> workflow_run.html_url,
     run_started_at |-> fromisoformat(workflow_run.run_started_at)]

\* line 94: response.links.get("next", dict()).get("url", None)
NextUrl(links) ==
    IF \E l \in links : l[1] = "next"
    THEN (CHOOSE l \in links : l[1] = "next")[2]
    ELSE None

\* lines 86-95
ResponseData(response) ==
    [data |-> [i \in 1..Len(response.workflow_runs) |->
                   WorkflowRun(response.workflow_runs[i])],
     next_url |-> NextUrl(response.links)]

\* a bug: one attempt more than max_retries
RangeExhaustedAfterOneMore(n, retries) == n >= retries + 1

\* line 61: "for _ in range(self.max_retries)" has no iteration left after n
RangeExhausted(n, retries) == n >= retries

\* the errors requests.get and raise_for_status raise
RequestExceptions == {"Timeout", "HTTPError"}

\* a bug: the runs of the last page replace those of the pages before
ExtendKeepsLastPage(runs, page_data) == page_data

\* line 118: data.extend(page.data)
extend(runs, page_data) == runs \o page_data

\* a bug: the exit code is the truth value of the list
IsTruthyAlways(list) == TRUE

\* lines 178 and 199: "if successful_runs", "if not all_runs"
IsTruthy(list) == list # <<>>

\* lines 110-111: get_all_runs is called
GetAllRuns(query_params) ==
    /\ url' = BaseUrl
    /\ params' = query_params
    /\ data' = <<>>
    /\ page_num' = 1
    /\ fetched' = <<>>
    /\ queries' = Append(queries, query_params)
    /\ nightly_pc' = "page"

\* lines 153-176: main builds the client and asks for the successful runs
NightlyMain ==
    /\ nightly_pc = "main"
    /\ call' = "success"
    /\ GetAllRuns(SuccessParams)
    /\ UNCHANGED <<server, max_retries, page, exceptions, events, successful_runs,
                   all_runs, bound, exit_code>>
    /\ UNCHANGED send_trace_vars

\* lines 112-117 and 60-61, 75-83: __get_next_page is called; with no attempt
\* to make, the for loop's else branch raises at once
GetNextPage ==
    /\ nightly_pc = "page"
    /\ exceptions' = <<>>
    /\ events' = <<>>
    /\ nightly_pc' = IF RangeExhausted(0, max_retries) THEN "raised" ELSE "attempt"
    /\ UNCHANGED <<server, max_retries, call, queries, url, params, data, page_num,
                   page, fetched, successful_runs, all_runs, bound, exit_code>>
    /\ UNCHANGED send_trace_vars

\* lines 62-74 and 75-83: the request fails; the error is kept, the client
\* sleeps, and after the last attempt RuntimeError is raised
RequestFails ==
    /\ nightly_pc = "attempt"
    /\ \E e \in RequestExceptions : exceptions' = Append(exceptions, e)
    /\ events' = events \o <<"get", "sleep">>
    /\ nightly_pc' = IF RangeExhausted(Len(exceptions) + 1, max_retries)
                     THEN "raised" ELSE "attempt"
    /\ UNCHANGED <<server, max_retries, call, queries, url, params, data, page_num,
                   page, fetched, successful_runs, all_runs, bound, exit_code>>
    /\ UNCHANGED send_trace_vars

\* lines 62-70 and 85-95: the request succeeds and __get_next_page returns
RequestSucceeds ==
    /\ nightly_pc = "attempt"
    /\ events' = Append(events, "get")
    /\ page' = ResponseData(Respond(server, url, params))
    /\ nightly_pc' = "got"
    /\ UNCHANGED <<server, max_retries, call, queries, url, params, data, page_num,
                   fetched, exceptions, successful_runs, all_runs, bound, exit_code>>
    /\ UNCHANGED send_trace_vars

\* lines 118-123: the page has a next link, which is followed
ExtendAndFollow ==
    /\ nightly_pc = "got"
    /\ page.next_url # None
    /\ page_num < MaxPageNum
    /\ data' = extend(data, page.data)
    /\ fetched' = Append(fetched, [url |-> url, params |-> params, page |-> page])
    /\ url' = page.next_url
    /\ params' = None
    /\ page_num' = page_num + 1
    /\ nightly_pc' = "page"
    /\ UNCHANGED <<server, max_retries, call, queries, page, exceptions, events,
                   successful_runs, all_runs, bound, exit_code>>
    /\ UNCHANGED send_trace_vars

\* lines 118-120 and 124: the page has no next link, get_all_runs returns
ExtendAndReturn ==
    /\ nightly_pc = "got"
    /\ page.next_url = None
    /\ data' = extend(data, page.data)
    /\ fetched' = Append(fetched, [url |-> url, params |-> params, page |-> page])
    /\ nightly_pc' = "returned"
    /\ UNCHANGED <<server, max_retries, call, queries, url, params, page_num, page,
                   exceptions, events, successful_runs, all_runs, bound, exit_code>>
    /\ UNCHANGED send_trace_vars

\* lines 159 and 178-185: there are successful runs
ReturnSuccess ==
    /\ nightly_pc = "returned"
    /\ call = "success"
    /\ IsTruthy(data)
    /\ successful_runs' = data
    /\ bound' = bound \cup {"successful_runs"}
    /\ exit_code' = <<ExitCode_SUCCESS>>
    /\ nightly_pc' = "exit"
    /\ UNCHANGED <<server, max_retries, call, queries, url, params, data, page_num,
                   page, fetched, exceptions, events, all_runs>>
    /\ UNCHANGED send_trace_vars

\* lines 159, 178 and 191-196: there is no successful run; main asks for all runs
QueryAllRuns ==
    /\ nightly_pc = "returned"
    /\ call = "success"
    /\ ~IsTruthy(data)
    /\ successful_runs' = data
    /\ bound' = bound \cup {"successful_runs"}
    /\ call' = "all"
    /\ GetAllRuns(AllParams)
    /\ UNCHANGED <<server, max_retries, page, exceptions, events, all_runs, exit_code>>
    /\ UNCHANGED send_trace_vars

\* lines 191 and 199-204: there is no run at all
ReturnFailure ==
    /\ nightly_pc = "returned"
    /\ call = "all"
    /\ ~IsTruthy(data)
    /\ all_runs' = data
    /\ bound' = bound \cup {"all_runs"}
    /\ exit_code' = <<ExitCode_FAILURE>>
    /\ nightly_pc' = "exit"
    /\ UNCHANGED <<server, max_retries, call, queries, url, params, data, page_num,
                   page, fetched, exceptions, events, successful_runs>>
    /\ UNCHANGED send_trace_vars

\* lines 191, 199 and 206-243: there are runs, none of them successful; the
\* rest of main is not well-formed
MainUnparsed ==
    /\ nightly_pc = "returned"
    /\ call = "all"
    /\ IsTruthy(data)
    /\ all_runs' = data
    /\ bound' = bound \cup {"all_runs"}
    /\ nightly_pc' = "unparsed"
    /\ UNCHANGED <<server, max_retries, call, queries, url, params, data, page_num,
                   page, fetched, exceptions, events, successful_runs, exit_code>>
    /\ UNCHANGED send_trace_vars

NightlyNext ==
    \/ NightlyMain
    \/ GetNextPage
    \/ RequestFails
    \/ RequestSucceeds
    \/ ExtendAndFollow
    \/ ExtendAndReturn
    \/ ReturnSuccess
    \/ QueryAllRuns
    \/ ReturnFailure
    \/ MainUnparsed

\* the results of a query: up to MaxPages pages of up to MaxRuns runs each;
\* a page has no next link, or one to the page after it, or one back to the
\* first page
Tables ==
    UNION {{t \in [1..n -> [count : 0..MaxRuns, next : 0..MaxPages]] :
               \A p \in 1..n : t[p].next \in {0, 1} \cup ({p + 1} \cap (1..n))} :
           n \in 1..MaxPages}

\* a single page: without runs, with one run
EmptyTable == <<[count |-> 0, next |-> 0]>>

OneRunTable == <<[count |-> 1, next |-> 0]>>

\* check.py runs alone
SendTraceIdle ==
    /\ pc = "idle"
    /\ jobs = <<>>
    /\ env_vars = <<>>
    /\ stats_files = <<>>
    /\ first_timestamp = 0
    /\ last_timestamp = 0
    /\ trace_id = 0
    /\ root_span = NoSpan
    /\ idx = 0
    /\ job_span = NoSpan
    /\ id_generator = RapidsSpanIdGenerator(0, None)
    /\ job_last_timestamp = 0
    /\ k = 0
    /\ step_start = 0
    /\ step_end = 0
    /\ sink = <<>>
    /\ attributes = <<>>
    /\ sccache_stats = <<>>

\* any results of the successful-runs query with one of two results of the
\* all-runs query, or no successful run with any results of the all-runs query
NightlyInputs ==
    \/ \E t \in Tables, a \in {EmptyTable, OneRunTable} :
           server = [success |-> t, all |-> a]
    \/ \E a \in Tables : server = [success |-> EmptyTable, all |-> a]

NightlyInit ==
    /\ SendTraceIdle
    /\ NightlyInputs
    /\ max_retries \in 0..MaxRetries
    /\ nightly_pc = "main"
    /\ call = ""
    /\ queries = <<>>
    /\ url = <<>>
    /\ params = <<>>
    /\ data = <<>>
    /\ page_num = 0
    /\ page = [data |-> <<>>, next_url |-> None]
    /\ fetched = <<>>
    /\ exceptions = <<>>
    /\ events = <<>>
    /\ successful_runs = <<>>
    /\ all_runs = <<>>
    /\ bound = {}
    /\ exit_code = <<>>

NightlySpec == NightlyInit /\ [][NightlyNext]_vars

\* the program is sequential and every request ends, by an answer or by the
\* timeout of line 67: a step that can be taken is taken
NightlyFairSpec == NightlySpec /\ WF_vars(NightlyNext)

-----------------------------------------------------------------------------
\* how often x occurs in a sequence
CountOf(seq, x) == Cardinality({i \in 1..Len(seq) : seq[i] = x})

\* a __get_next_page call is running or has just ended
InGetNextPage == nightly_pc \in {"attempt", "got", "raised"}

\* C23: one page fetch makes at most max_retries requests; a request is
\* followed by another event only if it failed, and then by exactly one sleep,
\* the last failed request included; a sleep only follows a request; the
\* fetch ends with the first request that succeeds; RuntimeError is raised
\* exactly when max_retries requests have failed.
C23_PageFetchRetries ==
    InGetNextPage =>
        /\ CountOf(events, "get") <= max_retries
        /\ \A i \in 1..Len(events) :
               /\ events[i] = "sleep" => i > 1 /\ events[i - 1] = "get"
               /\ events[i] = "get" /\ i < Len(events) => events[i + 1] = "sleep"
        /\ CountOf(events, "sleep") = Len(exceptions)
        /\ nightly_pc = "got" =>
               /\ events[Len(events)] = "get"
               /\ CountOf(events, "get") = Len(exceptions) + 1
        /\ nightly_pc = "attempt" =>
               events = <<>> \/ events[Len(events)] = "sleep"
        /\ nightly_pc = "raised" =>
               /\ CountOf(events, "get") = max_retries
               /\ events = <<>> \/ events[Len(events)] = "sleep"
        /\ nightly_pc = "raised" <=> Len(exceptions) = max_retries

\* RuntimeError after two requests that failed, each followed by a sleep
C23_Witness ==
    /\ nightly_pc = "raised"
    /\ max_retries = 2
    /\ events = <<"get", "sleep", "get", "sleep">>

\* the i-th page that following the next links of the running query reaches,
\* 0 if the links end before
RECURSIVE ReachedPage(_)
ReachedPage(i) ==
    IF i = 1 THEN 1
    ELSE IF ReachedPage(i - 1) = 0 THEN 0
    ELSE server[call][ReachedPage(i - 1)].next

\* the runs the API holds on page p of a query, as _WorkflowRun values
RunsOfPage(query, p) ==
    [j \in 1..server[query][p].count |->
         [html_url |-> <<query, p, j>>, run_started_at |-> p + j]]

\* the runs of the first n pages reached, in the order of the pages
RECURSIVE RunsOfReached(_)
RunsOfReached(n) ==
    IF n = 0 THEN <<>>
    ELSE RunsOfReached(n - 1) \o RunsOfPage(call, ReachedPage(n))

\* the chain of next links of the running query is finite
ChainEnds == ReachedPage(Len(server[call]) + 1) = 0

\* get_all_runs has returned to main
GetAllRunsReturned == nightly_pc \in {"returned", "exit", "unparsed"}

\* a get_all_runs call is running
InGetAllRuns == nightly_pc \in {"page", "attempt", "got"}

\* the pages requested are those the links lead to, each once, the first with
\* the params of the query and the others without; data is the runs of these
\* pages in their order; get_all_runs has returned exactly if the last page
\* fetched has no next link; over a finite chain it requests no more pages
\* than the chain has; after RuntimeError nothing is assigned from the call
PagesFollowed ==
    call # "" =>
        /\ \A i \in 1..Len(fetched) :
               /\ ReachedPage(i) # 0
               /\ fetched[i].url = IF i = 1 THEN BaseUrl
                                   ELSE PageUrl(call, ReachedPage(i))
               /\ fetched[i].params = IF i = 1 THEN queries[Len(queries)] ELSE None
               /\ fetched[i].page.data = RunsOfPage(call, ReachedPage(i))
        /\ data = RunsOfReached(Len(fetched))
        /\ Len(fetched) = IF GetAllRunsReturned THEN page_num ELSE page_num - 1
        /\ GetAllRunsReturned <=>
               /\ fetched # <<>>
               /\ server[call][ReachedPage(Len(fetched))].next = 0
        /\ ChainEnds => page_num <= Len(server[call])
        /\ nightly_pc = "raised" =>
               /\ exit_code = <<>>
               /\ call = "success" => bound = {}
               /\ call = "all" => bound = {"successful_runs"}

\* over a finite chain of links a get_all_runs call returns or raises
GetAllRunsEnds ==
    (InGetAllRuns /\ ChainEnds) ~> (nightly_pc \in {"returned", "raised"})

\* C24: get_all_runs returns the runs of every page reached from the first
\* url by following the next links, concatenated in the order of the pages;
\* each of these pages is requested once per fetch that succeeds, the first
\* with the params of the query and the others without params; the loop ends
\* exactly when a page without next link is fetched, hence whenever the chain
\* of links is finite; when a page fetch runs out of attempts the error
\* leaves get_all_runs and main, and no list is assigned.
C24_AllPagesInOrder == []PagesFollowed /\ GetAllRunsEnds

\* get_all_runs has returned the runs of two pages, two on the first and one
\* on the second, after a request that failed
C24_Witness ==
    /\ nightly_pc = "returned"
    /\ Len(fetched) = 2
    /\ Len(fetched[1].page.data) = 2
    /\ Len(data) = 3
    /\ exceptions # <<>>

\* C25: once the successful-runs query has returned at least one run, main
\* has returned exit code 0 and has made that query only; once it has
\* returned no run, main has made the all-runs query, without a status
\* filter, as its second query; once that has returned no run either, main
\* has returned exit code 1.
C25_ExitCodes ==
    /\ "successful_runs" \in bound /\ successful_runs # <<>> =>
           /\ nightly_pc = "exit"
           /\ exit_code = <<0>>
           /\ queries = <<SuccessParams>>
    /\ "successful_runs" \in bound /\ successful_runs = <<>> =>
           /\ queries = <<SuccessParams, AllParams>>
           /\ \A i \in 1..Len(AllParams) : AllParams[i][1] # "status"
    /\ "all_runs" \in bound /\ all_runs = <<>> =>
           /\ successful_runs = <<>>
           /\ nightly_pc = "exit"
           /\ exit_code = <<1>>
    /\ exit_code # <<>> => nightly_pc = "exit"

\* main has returned 0 after one query that found runs on two pages
C25_Witness ==
    /\ exit_code = <<0>>
    /\ Len(queries) = 1
    /\ Len(fetched) = 2
    /\ Len(successful_runs) >= 2

====
